---- MODULE Spec2Model ----
(***************************************************************************)
(* CrawlDock: the pool of selenium containers kept by DockerInfoCache      *)
(* (docker_controler.py) on top of DockerSeleniumManager                   *)
(* (docker_selenium.py).                                                   *)
(*                                                                         *)
(* Threads: the callers of assign_container() (GET /assign) and the one    *)
(* daemon thread update_periodically() that runs update_docker_info().     *)
(* The docker runtime is the environment: containers started by            *)
(* `docker run --rm` may stop at any time.                                 *)
(*                                                                         *)
(* A container name is the string "selenium-chrome<k>".  The dictionaries  *)
(* containers and assigned map a name to DockerContainer(url, name,        *)
(* download_dir); all three fields are functions of the name, so each      *)
(* dictionary is modelled by its key set.                                  *)
(***************************************************************************)
EXTENDS Integers, Sequences, FiniteSets, TLC

(***************************************************************************)
(* Bounds of the model.                                                    *)
(***************************************************************************)
\* the identity space is range(1, 250) in the code; here 1..MaxId
MaxId == 3
\* threads calling assign_container()
NumCallers == 2
\* assign_container() calls started in one behaviour
MaxAssign == 2
\* iterations of update_periodically()
MaxTicks == 2
\* containers that stop on their own in one behaviour
MaxDeaths == 1

(***************************************************************************)
(* Program constants.                                                      *)
(***************************************************************************)
MINIMUM_SELENIUM_CONTAINERS == 2

image == "selenium/standalone-chrome"

Callers == 1..NumCallers

Ids == 1..MaxId

\* docker_name = f"selenium-chrome{docker_id}"
NameOf(k) == "selenium-chrome" \o ToString(k)

ManagedNames == {NameOf(k) : k \in Ids}

\* the value None of Python
None == "None"

\* get_free_docker_id() returning None
NoId == 0

\* int(id) raising ValueError
ParseError == -1

(***************************************************************************)
(* The listing of `docker ps --filter name=selenium --format json`: one    *)
(* entry per listed container, of which the code reads Names, Image and    *)
(* State.                                                                  *)
(***************************************************************************)
Entry(n, img, st) == [Names |-> n, Image |-> img, State |-> st]

\* what the runtime lists for the containers this program started
Listing(rs) == {Entry(n, image, "running") : n \in rs}

\* names = [d["Names"] for d in dockers]
NamesOf(ds) == {d.Names : d \in ds}

\* id = name.replace("selenium-chrome", ""); int(id) if id else 0
ParseId(name) ==
    IF name = "selenium-chrome" THEN 0
    ELSE IF \E k \in 0..(MaxId + 1) : name = NameOf(k)
         THEN CHOOSE k \in 0..(MaxId + 1) : name = NameOf(k)
         ELSE ParseError

\* the entries whose name goes into exist_ids
Counted(info) == {d \in info : d.Image = image /\ d.State = "running"}

exist_ids(info) == {ParseId(d.Names) : d \in Counted(info)}

free_ids(info) == {i \in Ids : i \notin exist_ids(info)}

\* The values get_free_docker_id() can return for self.docker_info = info:
\* any element of the shuffled free_ids, None when there is none, and None
\* when int() raised inside the try.
get_free_docker_id(info) ==
    IF ParseError \in exist_ids(info) THEN {NoId}
    ELSE IF free_ids(info) = {} THEN {NoId}
    ELSE free_ids(info)

(***************************************************************************)
(* State.                                                                  *)
(***************************************************************************)
VARIABLES
    running,       \* names of the containers running in the docker runtime
    docker_info,   \* DockerSeleniumManager.docker_info (one manager, shared)
    containers,    \* DockerInfoCache.containers (keys)
    assigned,      \* DockerInfoCache.assigned (keys)
    cache,         \* DockerInfoCache.cache
    lock,          \* DockerInfoCache.lock: 0 when free, else the caller holding it
    pc,            \* position of each caller of assign_container()
    unassigned,    \* assign_container: local `unassigned` of the call in progress
    a_docker_id,   \* start_selenium_docker called by assign: local docker_id
    a_container,   \* assign_container: local `container`
    a_starts,      \* start_selenium_docker calls made by the call in progress
    upc,           \* position of the update_periodically() thread
    dockers,       \* update_docker_info: local `dockers`
    dead,          \* update_docker_info: dead_containers not yet iterated
    u_name,        \* update_docker_info: loop variable `name`
    u_i,           \* update_docker_info: completed iterations of range(MINIMUM)
    u_docker_id,   \* start_selenium_docker called by update: local docker_id
    u_container,   \* update_docker_info: local `container`
    ncalls, nticks, ndeaths,   \* counters that bound a behaviour
    leased,        \* names returned by assign for the container instance now running under that name
    twice,         \* some assign call returned a name that was in leased
    h_known0,      \* containers when the current run of update took its listing
    h_assigned0,   \* assigned at that moment
    h_quiet,       \* no assign_container step ran since that moment
    h_fault,       \* in this run the runtime refused to start a free name, a probe timed out or a container stopped
    h_prov,        \* names this run of update inserted into containers
    h_started,     \* names started in the runtime since this run took its listing
    alloc_info,    \* get_free_docker_id on its own: the listing given
    alloc_pc,      \* "call" before it ran, "done" after
    alloc_ret,     \* its return value
    s_pc,          \* position of the thread that uses the WebPageScraper
    driver,        \* WebPageScraper.driver
    docker_container,   \* WebPageScraper.docker_container
    s_docker_id,   \* start_selenium_docker called by start_driver: local docker_id
    dirs,          \* names whose download directory downloads/<name> exists
    files,         \* the files in the download directory of the scraper's container
    s_ret          \* how the last call made on the scraper ended

poolVars == <<containers, assigned>>
callVars == <<lock, pc, unassigned, a_docker_id, a_container, a_starts>>
updVars == <<upc, dockers, dead, u_name, u_i, u_docker_id, u_container>>
histVars == <<h_known0, h_assigned0, h_quiet, h_fault, h_prov, h_started>>
allocVars == <<alloc_info, alloc_pc, alloc_ret>>
scrapeVars == <<s_pc, driver, docker_container, s_docker_id, dirs, files, s_ret>>
vars == <<running, docker_info, containers, assigned, cache, lock, pc, unassigned,
          a_docker_id, a_container, a_starts, upc, dockers, dead, u_name, u_i,
          u_docker_id, u_container, ncalls, nticks, ndeaths, leased, twice,
          h_known0, h_assigned0, h_quiet, h_fault, h_prov, h_started,
          alloc_info, alloc_pc, alloc_ret,
          s_pc, driver, docker_container, s_docker_id, dirs, files, s_ret>>

\* DockerInfoCache.__init__ and DockerSeleniumManager.__init__; no container runs yet
InitPool ==
    /\ running = {}
    /\ docker_info = {}
    /\ containers = {}
    /\ assigned = {}
    /\ cache = {}
    /\ lock = 0
    /\ pc = [c \in Callers |-> "idle"]
    /\ unassigned = {}
    /\ a_docker_id = NoId
    /\ a_container = None
    /\ a_starts = 0
    /\ upc = "sleep"
    /\ dockers = {}
    /\ dead = {}
    /\ u_name = None
    /\ u_i = 0
    /\ u_docker_id = NoId
    /\ u_container = None
    /\ ncalls = 0 /\ nticks = 0 /\ ndeaths = 0
    /\ leased = {} /\ twice = FALSE
    /\ h_known0 = {} /\ h_assigned0 = {} /\ h_quiet = FALSE /\ h_fault = FALSE
    /\ h_prov = {} /\ h_started = {}

\* WebPageScraper.__init__, lines 172-177; no call made yet
InitScraper ==
    /\ s_pc = "idle"
    /\ driver = None
    /\ docker_container = None
    /\ s_docker_id = NoId
    /\ dirs = {}
    /\ files = {}
    /\ s_ret = [op |-> "none"]

Init ==
    /\ InitPool
    /\ alloc_info = {} /\ alloc_pc = "done" /\ alloc_ret = NoId
    /\ InitScraper

(***************************************************************************)
(* The docker runtime.                                                     *)
(***************************************************************************)
\* a container started with --rm stops (crash, docker stop, docker rm -f)
Die(n) ==
    /\ n \in running
    /\ ndeaths < MaxDeaths
    /\ running' = running \ {n}
    /\ ndeaths' = ndeaths + 1
    /\ h_fault' = (h_fault \/ upc # "sleep")
    /\ UNCHANGED <<docker_info, poolVars, cache, callVars, updVars, ncalls, nticks,
                   leased, twice, h_known0, h_assigned0, h_quiet, h_prov, h_started,
                   allocVars, scrapeVars>>

\* os.system("docker run ... --name n ...") == 0: docker refuses a name in use
CanStart(n) == n \notin running

(***************************************************************************)
(* assign_container(), lines 26-39.  The whole body runs inside            *)
(* `with self.lock`, so its locals exist for the lock holder only.         *)
(***************************************************************************)
\* set(self.containers.keys()) - set(self.assigned.keys())
Unassigned(known, asg) == known \ asg

\* `if not unassigned`
MustProvisionAlways(un) == TRUE
MustProvision(un) == un = {}

\* an assign step ran: the run of update in progress is no longer undisturbed
Disturb ==
    /\ h_quiet' = FALSE
    /\ h_known0' = {}
    /\ h_assigned0' = {}
    /\ UNCHANGED <<h_fault, h_prov>>

\* a statement of the body raised: the exception is on its way out
Raise(c) ==
    /\ pc' = [pc EXCEPT ![c] = "raise"]
    /\ UNCHANGED <<lock, unassigned, a_docker_id, a_container, a_starts>>

\* lines 27-31: acquire the lock, compute unassigned, branch
A_begin(c) ==
    /\ pc[c] = "idle"
    /\ lock = 0
    /\ ncalls < MaxAssign
    /\ ncalls' = ncalls + 1
    /\ lock' = c
    /\ unassigned' = Unassigned(containers, assigned)
    /\ pc' = [pc EXCEPT ![c] = IF MustProvision(unassigned') THEN "start" ELSE "get"]
    /\ Disturb
    /\ UNCHANGED <<running, docker_info, poolVars, cache, a_docker_id, a_container,
                   a_starts, updVars, nticks, ndeaths, leased, twice, h_started,
                   allocVars, scrapeVars>>

\* line 35: container = self.containers[unassigned[0]]; the order of
\* list(set) is arbitrary; KeyError when update popped the key meanwhile
A_get(c) ==
    /\ pc[c] = "get"
    /\ \E u \in unassigned :
          IF u \in containers
          THEN /\ a_container' = u
               /\ pc' = [pc EXCEPT ![c] = "assign"]
               /\ UNCHANGED <<lock, unassigned, a_docker_id, a_starts>>
          ELSE Raise(c)
    /\ Disturb
    /\ UNCHANGED <<running, docker_info, poolVars, cache, updVars, ncalls, nticks,
                   ndeaths, leased, twice, h_started, allocVars, scrapeVars>>

\* line 32, start_selenium_docker lines 115-127: choose the id from
\* self.docker_info as it is now; without an id the call returns None
\* (lines 118, 148-150)
A_start(c) ==
    /\ pc[c] = "start"
    /\ \E id \in get_free_docker_id(docker_info) :
          /\ a_starts' = a_starts + 1   \* a call of start_selenium_docker
          /\ IF id = NoId
             THEN /\ pc' = [pc EXCEPT ![c] = "insert"]   \* it returned None
                  /\ UNCHANGED a_docker_id
             ELSE /\ a_docker_id' = id
                  /\ pc' = [pc EXCEPT ![c] = "run"]
          /\ UNCHANGED <<lock, unassigned, a_container>>
    /\ Disturb
    /\ UNCHANGED <<running, docker_info, poolVars, cache, updVars, ncalls, nticks,
                   ndeaths, leased, twice, h_started, allocVars, scrapeVars>>

\* start_selenium_docker lines 129-150: docker run, then the readiness probe.
\* started: the runtime accepted the start; ready: the probe answered in time.
\* Otherwise lines 142, 145 raise and lines 148-150 return None.
A_run(c) ==
    /\ pc[c] = "run"
    /\ \E started \in {CanStart(NameOf(a_docker_id)), FALSE}, ready \in BOOLEAN :
          /\ running' = IF started THEN running \cup {NameOf(a_docker_id)} ELSE running
          /\ leased' = IF started THEN leased \ {NameOf(a_docker_id)} ELSE leased
          /\ h_started' = IF started /\ upc # "sleep"
                          THEN h_started \cup {NameOf(a_docker_id)} ELSE h_started
          /\ a_container' = IF started /\ ready THEN NameOf(a_docker_id) ELSE None
          /\ a_docker_id' = NoId   \* start_selenium_docker returned
          /\ pc' = [pc EXCEPT ![c] = "insert"]
          /\ UNCHANGED <<lock, unassigned, a_starts>>
    /\ Disturb
    /\ UNCHANGED <<docker_info, poolVars, cache, updVars, ncalls, nticks, ndeaths,
                   twice, allocVars, scrapeVars>>

\* line 33 written as `if container: self.containers[...] = container`,
\* so that a failed start goes on to line 39 and the call returns None
A_insert_IfNotNone(c) ==
    /\ pc[c] = "insert"
    /\ containers' = IF a_container = None THEN containers
                     ELSE containers \cup {a_container}
    /\ pc' = [pc EXCEPT ![c] = IF a_container = None THEN "return" ELSE "assign"]
    /\ Disturb
    /\ UNCHANGED <<running, docker_info, assigned, cache, lock, unassigned, a_docker_id,
                   a_container, a_starts, updVars, ncalls, nticks, ndeaths, leased,
                   twice, h_started, allocVars, scrapeVars>>

\* line 33: self.containers[container.name] = container; container.name
\* raises AttributeError when start_selenium_docker returned None
A_insert(c) ==
    /\ pc[c] = "insert"
    /\ IF a_container = None
       THEN /\ Raise(c)
            /\ UNCHANGED containers
       ELSE /\ containers' = containers \cup {a_container}
            /\ pc' = [pc EXCEPT ![c] = "assign"]
            /\ UNCHANGED <<lock, unassigned, a_docker_id, a_container, a_starts>>
    /\ Disturb
    /\ UNCHANGED <<running, docker_info, assigned, cache, updVars, ncalls, nticks,
                   ndeaths, leased, twice, h_started, allocVars, scrapeVars>>

\* line 37: self.assigned[container.name] = container
A_assign(c) ==
    /\ pc[c] = "assign"
    /\ assigned' = assigned \cup {a_container}
    /\ pc' = [pc EXCEPT ![c] = "return"]
    /\ Disturb
    /\ UNCHANGED <<running, docker_info, containers, cache, lock, unassigned,
                   a_docker_id, a_container, a_starts, updVars, ncalls, nticks, ndeaths,
                   leased, twice, h_started, allocVars, scrapeVars>>

\* line 39: return container; __exit__ releases the lock
A_return(c) ==
    /\ pc[c] = "return"
    /\ twice' = (twice \/ a_container \in leased)
    /\ leased' = leased \cup {a_container}
    /\ lock' = 0
    /\ pc' = [pc EXCEPT ![c] = "idle"]
    /\ unassigned' = {}
    /\ a_docker_id' = NoId
    /\ a_container' = None
    /\ a_starts' = 0
    /\ Disturb
    /\ UNCHANGED <<running, docker_info, poolVars, cache, updVars, ncalls, nticks,
                   ndeaths, h_started, allocVars, scrapeVars>>

\* the body written between self.lock.acquire() and self.lock.release()
\* without try/finally: the exception leaves with the lock still held
A_raise_LockKept(c) ==
    /\ pc[c] = "raise"
    /\ pc' = [pc EXCEPT ![c] = "idle"]
    /\ unassigned' = {}
    /\ a_docker_id' = NoId
    /\ a_container' = None
    /\ a_starts' = 0
    /\ Disturb
    /\ UNCHANGED <<running, docker_info, poolVars, cache, lock, updVars, ncalls, nticks,
                   ndeaths, leased, twice, h_started, allocVars, scrapeVars>>

\* the exception leaves assign_container(): __exit__ of line 27 releases
\* the lock and the caller of the method gets the exception
A_raise(c) ==
    /\ pc[c] = "raise"
    /\ lock' = 0
    /\ pc' = [pc EXCEPT ![c] = "idle"]
    /\ unassigned' = {}
    /\ a_docker_id' = NoId
    /\ a_container' = None
    /\ a_starts' = 0
    /\ Disturb
    /\ UNCHANGED <<running, docker_info, poolVars, cache, updVars, ncalls, nticks,
                   ndeaths, leased, twice, h_started, allocVars, scrapeVars>>

(***************************************************************************)
(* update_docker_info(), lines 41-65, run by update_periodically(), lines  *)
(* 71-78.  Only line 63 runs inside `with self.lock`.                      *)
(***************************************************************************)
\* line 46: set(self.containers.keys()) - set(names)
DeadNone(known, names) == {}
DeadContainers(known, names) == known \ names

\* line 53: (len(self.containers) - len(self.assigned)) < MINIMUM_SELENIUM_CONTAINERS
BelowMinimum(known, asg) ==
    Cardinality(known) - Cardinality(asg) < MINIMUM_SELENIUM_CONTAINERS

\* the history of a run is dropped when the run is over
ForgetRun ==
    /\ h_known0' = {}
    /\ h_assigned0' = {}
    /\ h_quiet' = FALSE
    /\ h_fault' = FALSE
    /\ h_prov' = {}
    /\ h_started' = {}

\* the locals of update_docker_info go out of scope
EndRun ==
    /\ upc' = "sleep"
    /\ dockers' = {}
    /\ dead' = {}
    /\ u_name' = None
    /\ u_i' = 0
    /\ u_docker_id' = NoId
    /\ u_container' = None
    /\ ForgetRun

\* lines 72-75 and 43, DockerSeleniumManager.update_docker_info lines 85-88:
\* list the runtime.  json.loads may raise on what docker printed: then
\* self.docker_info keeps its value and control is at line 64, no local
\* of the run being bound.
U_list ==
    /\ upc = "sleep"
    /\ nticks < MaxTicks
    /\ nticks' = nticks + 1
    /\ \E ok \in BOOLEAN :
          IF ok
          THEN /\ docker_info' = Listing(running)
               /\ dockers' = Listing(running)
               /\ upc' = "dead"
               /\ h_known0' = IF lock = 0 THEN containers ELSE {}
               /\ h_assigned0' = IF lock = 0 THEN assigned ELSE {}
               /\ h_quiet' = (lock = 0)
          ELSE /\ upc' = "list_except"
               /\ UNCHANGED <<docker_info, dockers, h_known0, h_assigned0, h_quiet>>
    /\ UNCHANGED <<running, poolVars, cache, callVars, dead, u_name, u_i, u_docker_id,
                   u_container, ncalls, ndeaths, leased, twice, h_fault, h_prov,
                   h_started, allocVars, scrapeVars>>

\* lines 44-46
U_dead ==
    /\ upc = "dead"
    /\ dead' = DeadContainers(containers, NamesOf(dockers))
    /\ upc' = IF dead' = {} THEN "check" ELSE "pop"
    /\ UNCHANGED <<running, docker_info, poolVars, cache, callVars, dockers, u_name,
                   u_i, u_docker_id, u_container, ncalls, nticks, ndeaths, leased, twice,
                   histVars, allocVars, scrapeVars>>

\* lines 48-49: the next name of the set, in arbitrary order;
\* self.containers.pop(name) raises KeyError when the key is gone
U_pop ==
    /\ upc = "pop"
    /\ \E name \in dead :
          /\ dead' = dead \ {name}
          /\ u_name' = name
          /\ IF name \in containers
             THEN /\ containers' = containers \ {name}
                  /\ upc' = "pop_assigned"
             ELSE /\ upc' = "except"
                  /\ UNCHANGED containers
    /\ UNCHANGED <<running, docker_info, assigned, cache, callVars, dockers, u_i,
                   u_docker_id, u_container, ncalls, nticks, ndeaths, leased, twice,
                   histVars, allocVars, scrapeVars>>

\* lines 50-51
U_pop_assigned ==
    /\ upc = "pop_assigned"
    /\ assigned' = assigned \ {u_name}
    /\ u_name' = None   \* not read again before line 48 rebinds it
    /\ upc' = IF dead = {} THEN "check" ELSE "pop"
    /\ UNCHANGED <<running, docker_info, containers, cache, callVars, dockers, dead,
                   u_i, u_docker_id, u_container, ncalls, nticks, ndeaths, leased,
                   twice, histVars, allocVars, scrapeVars>>

\* line 53
U_check ==
    /\ upc = "check"
    /\ upc' = IF BelowMinimum(containers, assigned) THEN "start" ELSE "cache"
    /\ u_i' = 0
    /\ UNCHANGED <<running, docker_info, poolVars, cache, callVars, dockers, dead,
                   u_name, u_docker_id, u_container, ncalls, nticks, ndeaths, leased,
                   twice, histVars, allocVars, scrapeVars>>

\* line 55, start_selenium_docker lines 115-127; None makes line 56 raise
U_start ==
    /\ upc = "start"
    /\ \E id \in get_free_docker_id(docker_info) :
          IF id = NoId
          THEN /\ upc' = "except"
               /\ UNCHANGED u_docker_id
          ELSE /\ u_docker_id' = id
               /\ upc' = "run"
    /\ UNCHANGED <<running, docker_info, poolVars, cache, callVars, dockers, dead,
                   u_name, u_i, u_container, ncalls, nticks, ndeaths, leased, twice,
                   histVars, allocVars, scrapeVars>>

\* start_selenium_docker lines 129-150
U_run ==
    /\ upc = "run"
    /\ \E started \in {CanStart(NameOf(u_docker_id)), FALSE}, ready \in BOOLEAN :
          /\ running' = IF started THEN running \cup {NameOf(u_docker_id)} ELSE running
          /\ leased' = IF started THEN leased \ {NameOf(u_docker_id)} ELSE leased
          /\ h_started' = IF started THEN h_started \cup {NameOf(u_docker_id)}
                          ELSE h_started
          /\ h_fault' = (h_fault \/ (CanStart(NameOf(u_docker_id)) /\ ~(started /\ ready)))
          /\ IF started /\ ready
             THEN /\ u_container' = NameOf(u_docker_id)
                  /\ upc' = "insert"
             ELSE /\ upc' = "except"
                  /\ UNCHANGED u_container
          /\ u_docker_id' = NoId   \* start_selenium_docker returned
    /\ UNCHANGED <<docker_info, poolVars, cache, callVars, dockers, dead, u_name, u_i,
                   ncalls, nticks, ndeaths, twice, h_known0, h_assigned0,
                   h_quiet, h_prov, allocVars, scrapeVars>>

\* line 56, and the next iteration of line 54
U_insert ==
    /\ upc = "insert"
    /\ containers' = containers \cup {u_container}
    /\ h_prov' = h_prov \cup {u_container}
    /\ u_i' = u_i + 1
    /\ u_container' = None   \* not read again before line 55 rebinds it
    /\ upc' = IF u_i' < MINIMUM_SELENIUM_CONTAINERS THEN "start" ELSE "cache"
    /\ UNCHANGED <<running, docker_info, assigned, cache, callVars, dockers, dead,
                   u_name, u_docker_id, ncalls, nticks, ndeaths, leased,
                   twice, h_known0, h_assigned0, h_quiet, h_fault, h_started, allocVars, scrapeVars>>

\* lines 58-63: with self.lock: self.cache = dockers; the run is over
U_cache ==
    /\ upc = "cache"
    /\ lock = 0
    /\ cache' = dockers
    /\ EndRun
    /\ UNCHANGED <<running, docker_info, poolVars, callVars, ncalls, nticks, ndeaths,
                   leased, twice, allocVars, scrapeVars>>

\* the exception leaves update_docker_info() and update_periodically():
\* the thread is over
U_crash ==
    /\ upc \in {"except", "list_except"}
    /\ upc' = "crashed"
    /\ UNCHANGED <<running, docker_info, poolVars, cache, callVars, dockers, dead,
                   u_name, u_i, u_docker_id, u_container, ncalls, nticks, ndeaths,
                   leased, twice, histVars, allocVars, scrapeVars>>

\* lines 64-65: the exception is caught and printed; the run is over and
\* the loop of lines 72-78 goes to sleep
U_except ==
    /\ upc \in {"except", "list_except"}
    /\ EndRun
    /\ UNCHANGED <<running, docker_info, poolVars, cache, callVars, ncalls, nticks,
                   ndeaths, leased, twice, allocVars, scrapeVars>>

\* get_docker_info(), lines 86-89: the value returned once the lock is held
get_docker_info == cache

(***************************************************************************)
(* The program.                                                            *)
(***************************************************************************)
Next ==
    \/ \E n \in ManagedNames : Die(n)
    \/ \E c \in Callers : A_begin(c)
    \/ \E c \in Callers : A_get(c)
    \/ \E c \in Callers : A_start(c)
    \/ \E c \in Callers : A_run(c)
    \/ \E c \in Callers : A_insert(c)
    \/ \E c \in Callers : A_assign(c)
    \/ \E c \in Callers : A_return(c)
    \/ \E c \in Callers : A_raise(c)
    \/ U_list
    \/ U_dead
    \/ U_pop
    \/ U_pop_assigned
    \/ U_check
    \/ U_start
    \/ U_run
    \/ U_insert
    \/ U_cache
    \/ U_except

Spec == Init /\ [][Next]_vars

\* the steps of the thread update_periodically()
UpdateThread ==
    \/ U_list \/ U_dead \/ U_pop \/ U_pop_assigned \/ U_check
    \/ U_start \/ U_run \/ U_insert \/ U_cache \/ U_except

\* the steps of a caller that is inside assign_container()
AssignBody(c) ==
    \/ A_get(c) \/ A_start(c) \/ A_run(c) \/ A_insert(c) \/ A_assign(c) \/ A_return(c)
    \/ A_raise(c)

\* The threads are scheduled by the operating system: a thread that can
\* take a step eventually takes one (time.sleep returns, docker and the
\* probe answer or time out).  Callers need not arrive.
SpecLive ==
    /\ Init /\ [][Next]_vars
    /\ WF_vars(UpdateThread)
    /\ \A c \in Callers : WF_vars(AssignBody(c))

(***************************************************************************)
(* get_free_docker_id() on its own, for every listing docker ps can print: *)
(* containers this program started, the same names paused or run from      *)
(* another image, and names that only match --filter name=selenium.        *)
(***************************************************************************)
AllocNames == ManagedNames \cup {NameOf(MaxId + 1), "selenium-chrome", "selenium-hub"}

AllocKinds == {<<"absent", "absent">>}
              \cup ({image, "selenium/standalone-firefox"} \X {"running", "paused"})

\* container names are unique in the runtime: at most one entry per name
AllocListings ==
    {{Entry(n, f[n][1], f[n][2]) : n \in {m \in AllocNames : f[m][1] # "absent"}} :
        f \in [AllocNames -> AllocKinds]}

InitAlloc ==
    /\ InitPool
    /\ alloc_info \in AllocListings
    /\ alloc_pc = "call"
    /\ alloc_ret = NoId
    /\ InitScraper

\* self.docker_info = alloc_info; get_free_docker_id()
Allocate ==
    /\ alloc_pc = "call"
    /\ alloc_ret' \in get_free_docker_id(alloc_info)
    /\ alloc_pc' = "done"
    /\ UNCHANGED <<running, docker_info, poolVars, cache, callVars, updVars, ncalls,
                   nticks, ndeaths, leased, twice, histVars, alloc_info, scrapeVars>>

NextAlloc == Allocate

SpecAlloc == InitAlloc /\ [][NextAlloc]_vars

(***************************************************************************)
(* One WebPageScraper (docker_selenium.py lines 171-286) with the          *)
(* DockerSeleniumManager it creates for itself, used by one thread.  Its   *)
(* manager never lists the runtime, so its docker_info stays [].  Other    *)
(* programs (the pool of docker_controler.py) start containers meanwhile.  *)
(***************************************************************************)
poolAll == <<docker_info, poolVars, cache, callVars, updVars, ncalls, nticks, ndeaths,
             leased, twice, histVars, allocVars>>

\* another manager starts a container under the name n and creates its
\* download directory (start_selenium_docker, lines 120-141)
OtherStart(n) ==
    /\ CanStart(n)
    /\ running' = running \cup {n}
    /\ dirs' = dirs \cup {n}
    /\ files' = IF n = docker_container THEN {} ELSE files
    /\ UNCHANGED <<poolAll, s_pc, driver, docker_container, s_docker_id, s_ret>>

\* start_driver line 180, get_selenium_docker lines 79-83,
\* start_selenium_docker lines 115-127: choose the id, remove the download
\* directory if it exists, create it
S_start ==
    /\ s_pc = "idle"
    /\ driver = None
    /\ \E id \in get_free_docker_id(docker_info) :
          IF id = NoId
          THEN /\ s_ret' = [op |-> "provision", outcome |-> "no_id", name |-> None]
               /\ docker_container' = None
               /\ s_pc' = "started"
               /\ UNCHANGED <<s_docker_id, dirs, files>>
          ELSE /\ s_docker_id' = id
               /\ dirs' = dirs \cup {NameOf(id)}
               /\ files' = {}
               /\ s_pc' = "run"
               /\ UNCHANGED <<docker_container, s_ret>>
    /\ UNCHANGED <<running, poolAll, driver>>

\* start_selenium_docker lines 129-150 and the assignment of line 180:
\* docker run, then the readiness probe; any failure returns None
S_run ==
    /\ s_pc = "run"
    /\ \E started \in {CanStart(NameOf(s_docker_id)), FALSE}, ready \in BOOLEAN :
          /\ running' = IF started THEN running \cup {NameOf(s_docker_id)} ELSE running
          /\ docker_container' = IF started /\ ready THEN NameOf(s_docker_id) ELSE None
          /\ s_ret' = [op |-> "provision",
                       outcome |-> IF ~started THEN "start_failed"
                                   ELSE IF ~ready THEN "not_ready" ELSE "ok",
                       name |-> NameOf(s_docker_id)]
    /\ s_docker_id' = NoId
    /\ s_pc' = "started"
    /\ UNCHANGED <<poolAll, driver, dirs, files>>

\* start_driver lines 181-199: raise without a container, else open the
\* remote session (webdriver.Remote raises when it cannot)
S_connect ==
    /\ s_pc = "started"
    /\ \E session \in BOOLEAN :
          IF docker_container = None \/ ~session
          THEN /\ s_ret' = [op |-> "start_driver", raised |-> TRUE]
               /\ UNCHANGED driver
          ELSE /\ s_ret' = [op |-> "start_driver", raised |-> FALSE]
               /\ driver' = "driver"
    /\ s_pc' = "idle"
    /\ UNCHANGED <<running, poolAll, docker_container, s_docker_id, dirs, files>>

\* line 286: self.docker_container.download_dir raises AttributeError when
\* self.docker_container is None
rmtree_raises(container) == container = None

\* stop_driver lines 280-286.  quit: self.driver.quit() returned (it raises
\* when the session cannot be reached); stopped: docker stop ended the
\* container (os.system only returns a status).
S_stop ==
    /\ s_pc = "idle"
    /\ \E quit \in BOOLEAN, stopped \in BOOLEAN :
          IF driver # None /\ ~quit
          THEN /\ s_ret' = [op |-> "stop_driver", raised |-> TRUE]
               /\ UNCHANGED <<running, dirs, files>>
          ELSE /\ running' = IF docker_container # None /\ stopped
                             THEN running \ {docker_container} ELSE running
               /\ IF rmtree_raises(docker_container)
                  THEN /\ s_ret' = [op |-> "stop_driver", raised |-> TRUE]
                       /\ UNCHANGED <<dirs, files>>
                  ELSE /\ s_ret' = [op |-> "stop_driver", raised |-> FALSE]
                       /\ dirs' = dirs \ {docker_container}
                       /\ files' = {}
    /\ UNCHANGED <<poolAll, s_pc, driver, docker_container, s_docker_id>>

\* Files a navigation can leave in /downloads: name, whether pypdf reads
\* the content (kind "pdf") or raises on it (kind "broken"), and for a PDF
\* the text page.extract_text() gives for each page.
Downloadable ==
    { [name |-> "report.pdf", kind |-> "pdf", pages |-> <<"p1", "p2">>],
      [name |-> "REPORT.PDF", kind |-> "pdf", pages |-> <<"q1">>],
      [name |-> "locked.pdf", kind |-> "broken", pages |-> <<>>],
      [name |-> "logo.png", kind |-> "other", pages |-> <<>>] }

\* str.endswith
EndsWith(str, suffix) ==
    /\ Len(str) >= Len(suffix)
    /\ SubSeq(str, Len(str) - Len(suffix) + 1, Len(str)) = suffix

\* lines 264-267: result = ""; for page in reader.pages: result += text
RECURSIVE PdfText(_)
PdfText(pages) == IF pages = <<>> THEN "" ELSE Head(pages) \o PdfText(Tail(pages))

\* `if not page_text`, line 251
NoText(page_text) == page_text = None \/ page_text = ""

\* the return value of lines 221 and 278
FetchFailed == [html |-> None, text |-> None, links |-> <<>>, screenshot |-> None]

\* get() lines 201-221 on a scraper that has a driver, _return_page_html
\* lines 223-278.  loaded: navigation, the two waits, page_source and the
\* screenshot raised nothing; page_text: what trafilatura.extract returned
\* (None also when it raised, lines 245-249); down: the files the
\* navigation downloaded.  The first file of os.listdir whose name ends with
\* ".pdf" is read; the order of os.listdir is arbitrary.
S_get ==
    /\ s_pc = "idle"
    /\ driver # None
    /\ \E loaded \in BOOLEAN, page_text \in {None, "", "text"},
          links \in {<<>>, <<"link">>}, down \in SUBSET Downloadable :
          LET page == [html |-> "html", text |-> page_text, links |-> links,
                       screenshot |-> "png"]
              now == IF loaded /\ docker_container \in dirs THEN files \cup down
                     ELSE files
              pdfs == {f \in now : EndsWith(f.name, ".pdf")}
              call == [op |-> "get", loaded |-> loaded, page_text |-> page_text]
          IN  /\ files' = now
              /\ IF ~loaded
                 THEN s_ret' = call @@ FetchFailed @@ [listed |-> FALSE]
                 ELSE IF ~NoText(page_text)
                 THEN s_ret' = call @@ page @@ [listed |-> FALSE]
                 ELSE IF docker_container \notin dirs   \* os.listdir raises
                 THEN s_ret' = call @@ FetchFailed @@ [listed |-> TRUE]
                 ELSE IF pdfs = {}
                 THEN s_ret' = call @@ page @@ [listed |-> TRUE]
                 ELSE \E f \in pdfs :
                         IF f.kind = "pdf"
                         THEN s_ret' = call @@ [html |-> PdfText(f.pages),
                                                text |-> PdfText(f.pages),
                                                links |-> <<>>,
                                                screenshot |-> None]
                                            @@ [listed |-> TRUE]
                         ELSE s_ret' = call @@ FetchFailed @@ [listed |-> TRUE]
    /\ UNCHANGED <<running, poolAll, s_pc, driver, docker_container, s_docker_id, dirs>>

NextScraper ==
    \/ \E n \in ManagedNames : OtherStart(n)
    \/ S_start
    \/ S_run
    \/ S_connect
    \/ S_get
    \/ S_stop

SpecScraper == Init /\ [][NextScraper]_vars

(***************************************************************************)
(* Properties.                                                             *)
(***************************************************************************)
\* a run of update_docker_info() that took its listing is at its end: it is
\* about to execute its last statement (line 63, or the print of line 65)
RunEnding == (upc = "cache" /\ lock = 0) \/ upc = "except"

\* the maps have not been touched by assign_container() since the run began
QuietRun == RunEnding /\ h_quiet

\* C1: no two assign_container() calls return the same container: a name
\* that a call returned is not returned by another call while it names the
\* same container instance of the runtime.
C1_NoDoubleAssign == ~twice

\* C2: the keys of assigned are keys of containers, in every reachable state.
C2_AssignedSubsetKnown == assigned \subseteq containers

\* C3: at the end of a run of update_docker_info() whose listing does not
\* contain X, X is a key of neither containers nor assigned (X not being the
\* name of a container started after the listing was taken).
C3_AbsentAfterRun ==
    RunEnding =>
        \A X \in ManagedNames :
            (X \notin NamesOf(dockers) /\ X \notin h_started)
                => (X \notin containers /\ X \notin assigned)

C5_ProvisionedIsKnownAndAssigned ==
    \A c \in Callers :
        (pc[c] = "return" /\ unassigned = {})
            => /\ a_starts = 1
               /\ a_container \in containers
               /\ a_container \in assigned

\* C6: get_free_docker_id() returns no identity of a container of the
\* listing, returns a value of the identity space, and returns None exactly
\* when every identity of the space is in the listing.
C6_FreeIdIsFree ==
    alloc_pc = "done" =>
        /\ (alloc_ret # NoId =>
                /\ alloc_ret \in Ids
                /\ NameOf(alloc_ret) \notin NamesOf(alloc_info))
        /\ (alloc_ret = NoId <=> \A i \in Ids : NameOf(i) \in NamesOf(alloc_info))

\* The run started from containers = {A, B}, assigned = {A}, its listing is
\* {A}, and assign_container() did not run meanwhile.
ScenarioC7(A, B) ==
    /\ A # B
    /\ QuietRun
    /\ h_known0 = {A, B}
    /\ h_assigned0 = {A}
    /\ NamesOf(dockers) = {A}

\* C7 as stated: that run ends with containers = {A} and assigned = {A}.
C7_Original ==
    \A A, B \in ManagedNames :
        ScenarioC7(A, B) => (containers = {A} /\ assigned = {A})

\* C7 amended: that run ends with assigned = {A} and with containers = {A}
\* plus the containers the run itself provisioned because spare capacity
\* 0 is below the minimum (at most two; two when both starts succeeded and
\* no container stopped during the run): the entry of B is removed, A and
\* its assignment are left as they were.
C7_Amended ==
    \A A, B \in ManagedNames :
        ScenarioC7(A, B) =>
            /\ assigned = {A}
            /\ A \notin h_prov
            /\ containers = {A} \cup h_prov
            /\ Cardinality(h_prov) <= MINIMUM_SELENIUM_CONTAINERS
            /\ ((upc = "cache" /\ ~h_fault)
                    => Cardinality(h_prov) = MINIMUM_SELENIUM_CONTAINERS)

\* the scenario of C7 at the end of a run that provisioned its two containers
C7_Witness == \E A, B \in ManagedNames : ScenarioC7(A, B) /\ upc = "cache" /\ ~h_fault

\* C8: a run started from containers = {} and assigned = {} with an empty
\* listing, undisturbed by assign_container(), against a runtime that
\* accepted every start of a name not running, answered every probe and in
\* which no container stopped, ends with exactly
\* MINIMUM_SELENIUM_CONTAINERS (2) containers in containers, none of them in
\* assigned.
C8_TwoSpares ==
    (/\ QuietRun
     /\ h_known0 = {} /\ h_assigned0 = {} /\ dockers = {}
     /\ ~h_fault)
        => /\ Cardinality(containers) = MINIMUM_SELENIUM_CONTAINERS
           /\ containers \cap assigned = {}

\* C9: at the end of every run of update_docker_info() whose listing and
\* provisioning calls all succeeded (and during which no container stopped),
\* len(containers) - len(assigned) is at least MINIMUM_SELENIUM_CONTAINERS,
\* whatever assign_container() did meanwhile.
C9_SpareAfterRun ==
    (upc = "cache" /\ lock = 0 /\ ~h_fault) => ~BelowMinimum(containers, assigned)

\* update_docker_info() is between its read of containers (line 46) and its
\* last write of containers or assigned (lines 49, 51, 56)
InMapUpdate == upc \in {"pop", "pop_assigned", "check", "start", "run", "insert"}

\* C10: update_docker_info() does its read-modify-write of containers and
\* assigned under the lock that assign_container() holds for its body, so
\* no caller is inside the body of assign_container() while update is
\* inside that read-modify-write.
C10_MapsUnderOneLock == InMapUpdate => \A c \in Callers : pc[c] = "idle"

\* a run of update_docker_info() raised: control is in the handler of line 64
FailedRun == upc \in {"except", "list_except"}

\* C11: a run of update_docker_info() that fails (the listing raises, a
\* start_selenium_docker call returns None, a pop raises) does not end the
\* loop of update_periodically(): after the failed iteration n the loop
\* goes on to iteration n + 1 (for every n below the bound MaxTicks).
C11_LoopSurvivesFailure ==
    \A n \in 1..(MaxTicks - 1) :
        (FailedRun /\ nticks = n) ~> (nticks > n)

\* a run failed and the bound leaves room for another iteration
C11_Witness == FailedRun /\ nticks < MaxTicks

\* the start_selenium_docker call of caller c returned None
ProvisionFailed(c) ==
    /\ pc[c] \in {"insert", "assign", "return", "raise"}
    /\ unassigned = {}
    /\ a_container = None

\* C12: a call of assign_container() whose provisioning failed (no free
\* id, docker run refused, probe timed out) made exactly one call of
\* start_selenium_docker and ends in an exception that reaches its caller,
\* never in a return.
C12_FailureIsRaisedOnce ==
    \A c \in Callers :
        ProvisionFailed(c) => /\ a_starts = 1
                              /\ pc[c] \in {"insert", "raise"}

\* the exception of a failed provisioning is leaving assign_container()
C12_Witness == \E c \in Callers : ProvisionFailed(c) /\ pc[c] = "raise"

\* C13: stop_driver() never ends in an exception that reaches its caller,
\* whatever the state of the scraper: no container obtained, the session
\* quit failing, docker stop failing.
C13_StopNeverRaises == s_ret.op = "stop_driver" => ~s_ret.raised

\* C15: a fetch whose extracted page text is empty, made while the download
\* directory holds one PDF, returns links = [], screenshot = None and the
\* text of that PDF as html and as extracted text; a fetch whose extracted
\* text is not empty returns the page as it is without listing the download
\* directory.
C15_PdfFallback ==
    (s_ret.op = "get" /\ s_ret.loaded) =>
        /\ NoText(s_ret.page_text) =>
              \A f \in Downloadable :
                  (f.kind = "pdf" /\ files = {f}) =>
                      /\ s_ret.links = <<>>
                      /\ s_ret.screenshot = None
                      /\ s_ret.html = PdfText(f.pages)
                      /\ s_ret.text = PdfText(f.pages)
        /\ ~NoText(s_ret.page_text) =>
              /\ ~s_ret.listed
              /\ s_ret.html = "html"
              /\ s_ret.text = s_ret.page_text
              /\ s_ret.screenshot = "png"

\* C20: when docker run is refused, the download directory made for the
\* chosen name is gone when start_selenium_docker returns None.
C20_DirRemovedOnStartFailure ==
    (s_pc = "started" /\ s_ret.op = "provision" /\ s_ret.outcome = "start_failed")
        => s_ret.name \notin dirs

\* C14: between two runs of update_docker_info(), get_docker_info() returns
\* the listing obtained by the most recent run whose listing succeeded,
\* which is what the manager keeps in docker_info (line 87).
C14_CacheIsLastListing == upc = "sleep" => get_docker_info = docker_info

\* C16: no caller holds the lock while its start_selenium_docker call
\* (choice of the id, docker run, readiness probe) is in progress.
C16_ProvisionOutsideLock ==
    \A c \in Callers : pc[c] \in {"start", "run"} => lock # c

\* C17: start_selenium_docker never chooses the id of a container that is
\* running at the moment of the choice, in assign_container() and in
\* update_docker_info() alike.
C17_IdFreeInRuntime ==
    [][/\ \A c \in Callers :
             (pc[c] = "start" /\ pc'[c] = "run") => NameOf(a_docker_id') \notin running
       /\ (upc = "start" /\ upc' = "run") => NameOf(u_docker_id') \notin running]_vars

\* C18: a run of update_docker_info() that found spare capacity below the
\* minimum, started from consistent maps, was not disturbed by
\* assign_container() and whose starts all succeeded, made as many
\* start_selenium_docker calls as the deficit: it ends with
\* len(containers) - len(assigned) = MINIMUM_SELENIUM_CONTAINERS exactly.
C18_ExactDeficit ==
    (/\ QuietRun /\ upc = "cache" /\ ~h_fault
     /\ h_assigned0 \subseteq h_known0
     /\ u_i > 0)
        => Cardinality(containers) - Cardinality(assigned) = MINIMUM_SELENIUM_CONTAINERS

\* the state of the identity X in the maps known and asg
IdState(X, known, asg) ==
    IF X \in known THEN (IF X \in asg THEN "assigned" ELSE "unassigned")
    ELSE (IF X \in asg THEN "removing" ELSE "unknown")

\* unknown -> known/unassigned (lines 33, 56), known/unassigned ->
\* known/assigned (line 37), known -> removed (line 49, and for an assigned
\* identity line 51 after it)
AllowedTransitions ==
    { <<"unknown", "unassigned">>, <<"unassigned", "assigned">>,
      <<"unassigned", "unknown">>, <<"assigned", "removing">>,
      <<"removing", "unknown">> }

\* C19: every step of assign_container() and update_docker_info() leaves
\* the state of each identity as it is or changes it by one of the allowed
\* transitions: no step takes an identity from known/assigned to
\* known/unassigned, and none puts into assigned an identity that is not
\* in containers.
C19_IdentityLifecycle ==
    [][\A X \in ManagedNames :
          \/ IdState(X, containers', assigned') = IdState(X, containers, assigned)
          \/ <<IdState(X, containers, assigned), IdState(X, containers', assigned')>>
                \in AllowedTransitions]_vars

\* caller c takes a step of a call that finds nothing unassigned, up to and
\* including the failure of its provisioning: lines 27-32, the None
\* returned to line 32, the AttributeError of line 33 and its way out
FailingCallStep(c) ==
    /\ pc'[c] # pc[c]
    /\ \/ pc'[c] \in {"start", "run"}
       \/ pc'[c] = "insert" /\ a_container' = None
       \/ pc'[c] = "raise" /\ unassigned = {}
       \/ pc[c] = "raise" /\ unassigned = {}

\* C21: a call of assign_container() whose provisioning fails writes
\* nothing to containers or assigned (each of its steps leaves both as they
\* are), and when its exception leaves the method the lock is free, no
\* caller being left inside the body: a later call can acquire it.
C21_FailureLeavesMapsAndLock ==
    [][\A c \in Callers :
          /\ FailingCallStep(c) => (containers' = containers /\ assigned' = assigned)
          /\ (ProvisionFailed(c) /\ pc[c] = "raise" /\ pc'[c] = "idle")
                => (lock' = 0 /\ \A d \in Callers : pc'[d] = "idle")]_vars

\* the provisioning of a call failed while the maps hold entries, and its
\* exception is leaving the method
C21_Witness ==
    \E c \in Callers :
        /\ ProvisionFailed(c) /\ pc[c] = "raise"
        /\ containers # {} /\ assigned # {}

\* C22: update_docker_info() removes from containers and from assigned
\* (lines 49, 51) no name whose container is running at the moment of the
\* removal; a container that assign_container() started after the run took
\* its listing is not removed by that run.
C22_RunningNotReaped ==
    [][(upc \in {"pop", "pop_assigned"})
          => \A X \in (containers \ containers') \cup (assigned \ assigned') :
                X \notin running]_vars

====
